---- MODULE Spec2Model ----
(***************************************************************************)
(* A model of konsul's Instancer: the cached list of service instances,    *)
(* the round-robin selection over it, the listener fan-out, and Close      *)
(* (Spec); of its constructor NewInstancer (SpecNew); of the KV Watch      *)
(* function (SpecWatch); of the KVClient (SpecKV); of the hclog wrappers   *)
(* of zap and zerolog loggers (SpecLog); and of the zap wrapper's          *)
(* conversion of logging arguments to fields (SpecFields).                 *)
(*                                                                         *)
(* Go slices are references: a slice value is modelled as a reference into *)
(* `heap`, so that handing out the stored slice and handing out a copy of  *)
(* it are different things.  Every operation is cut into steps at its      *)
(* reads and writes of the fields Close writes without the mutex           *)
(* (i.instances, i.listeners) and of plan.stop; steps that only touch the  *)
(* mutex or locals are merged with the next such read or write.  A read of *)
(* a slice header is one step (no torn headers).                           *)
(***************************************************************************)
EXTENDS Integers, Sequences, FiniteSets, TLC

VARIABLES
    stopped,    \* plan.stop, read by plan.IsStopped, set by plan.Stop
    instances,  \* Instancer.instances: a reference into heap
    listeners,  \* Instancer.listeners: registered listeners, in order
    counter,    \* Instancer.counter
    writer,     \* Instancer.mutex: the holder of the write lock, or NoThread
    readers,    \* Instancer.mutex: the holders of the read lock
    heap,       \* backing arrays of the []string slices that are reachable
    pc,         \* where each goroutine is
    loc,        \* each goroutine's locals
    data,       \* the payload the plan hands to the handler
    got,        \* per listener: the slice it was last handed and keeps
    ret,        \* per caller: what its last call returned
    hist,       \* history: the batches applied and the snapshots they made
    dropped,    \* history: per payload the handler discarded, the epoch then
    notif,      \* history: every OnChange invocation, in order
    picks,      \* history: per counter value, what Instance returned for it
    calls,      \* history: number of calls started, of Instance and others;
                \* of Instance not stopped; of Instance with a snapshot
    writes,     \* history: number of writes into slices handed out
    closeRet,   \* history: some Close has returned
    closes,     \* history: per Close that returned, what it left behind
    newInstancer, \* the call of NewInstancer: its argument, position, results
    kvWatch,    \* the call of Watch: its arguments, its handler, its results
    kvClient,   \* a KVClient: Consul's KV store and its last call
    logWrap,    \* the hclog wrappers made from one wrapped logger
    zapFields   \* a call of convertArgsToZapFields: its arguments, its result

(* What the operations of an Instancer leave alone. *)
elsewhere == <<newInstancer, kvWatch, kvClient, logWrap, zapFields>>

vars == <<stopped, instances, listeners, counter, writer, readers, heap, pc,
          loc, data, got, ret, hist, dropped, notif, picks, calls, writes,
          closeRet, closes, elsewhere>>

(* Bounds of the model. *)
MaxEvents == 2
MaxCalls == 2
MaxPicks == 3
MaxWrites == 1

Clients == {"c1", "c2"}
Feed == "feed"
Threads == Clients \cup {Feed}
Listeners == {"l1", "l2"}
NoThread == "none"
NoRef == 0
Nil == "nil"

(***************************************************************************)
(* What the watch plan delivers: a batch of service entries, or something  *)
(* of another type.                                                        *)
(***************************************************************************)
D1 == [node |-> "10.0.0.1", service |-> "", port |-> 8080]
D2 == [node |-> "10.0.0.2", service |-> "10.0.0.9", port |-> 9090]
Entries(b) == [kind |-> "entries", entries |-> b]
Malformed == [kind |-> "other", entries |-> <<>>]
NoData == [kind |-> "none", entries |-> <<>>]
Payloads == {Malformed, Entries(<<>>), Entries(<<D1, D2>>), Entries(<<D2, D2>>)}

(* What a holder of a slice writes into it when it modifies it. *)
Scribble == "scribbled"

(***************************************************************************)
(* fmt.Sprintf("%s:%d", addr, port)                                        *)
(***************************************************************************)
Digit(d) == <<"0", "1", "2", "3", "4", "5", "6", "7", "8", "9">>[d + 1]

RECURSIVE Itoa(_)
Itoa(n) == IF n < 10 THEN Digit(n) ELSE Itoa(n \div 10) \o Digit(n % 10)

Sprintf(addr, port) == addr \o ":" \o Itoa(port)

EntryAddr_node(e) == IF e.node # "" THEN e.node ELSE e.service

(* handler, lines 214-218: the address of one entry. *)
EntryAddr(e) == IF e.service # "" THEN e.service ELSE e.node

EntryInstance(e) == Sprintf(EntryAddr(e), e.port)

BuildInstances_reversed(d) ==
    [j \in 1..Len(d) |-> EntryInstance(d[Len(d) + 1 - j])]

(* handler, lines 212-219: the list built from a batch. *)
BuildInstances(d) == [j \in 1..Len(d) |-> EntryInstance(d[j])]

(***************************************************************************)
(* Slices.                                                                 *)
(***************************************************************************)
Min(S) == CHOOSE x \in S : \A y \in S : x <= y

(* A reference not in use. *)
NewRef(h) == Min((1..(Cardinality(DOMAIN h) + 1)) \ DOMAIN h)

(* make([]string, n) *)
Make(n) == [j \in 1..n |-> ""]

Copy_none(dst, src) == dst

(* copy(dst, src): the first min(len(dst), len(src)) elements. *)
Copy(dst, src) ==
    [j \in 1..Len(dst) |-> IF j <= Len(src) THEN src[j] ELSE dst[j]]

(* The references reachable in the next state; the rest is garbage. *)
LiveNext ==
    ({instances'} \cup {loc'[t].ref : t \in Threads}
       \cup {ret'[c].ref : c \in Clients} \cup {got'[l] : l \in Listeners})
    \ {NoRef}

(* The next heap is h, less the garbage. *)
Store(h) == heap' = [r \in LiveNext |-> h[r]]

LocNone == [ref |-> NoRef, n |-> 0, old |-> 0, idx |-> 0, l |-> "",
            ls |-> <<>>, i |-> 0, k0 |-> 0, err |-> Nil, alone |-> FALSE,
            calls0 |-> 0, closes0 |-> 0]

RetNone == [seq |-> 0, op |-> "", out |-> "", found |-> FALSE, ep |-> "",
            ref |-> NoRef, val |-> <<>>, k0 |-> 0, k1 |-> 0, clean |-> TRUE]

(* The snapshot the k-th applied batch made; the 0-th is NewInstancer's. *)
Snap(k) == IF k = 0 THEN <<>> ELSE hist[k].snap

Epoch == Len(hist)

(***************************************************************************)
(* NewInstancer, lines 83-135, and InstancerConfig.validate, lines 45-55.  *)
(* A service name is a sequence of characters.  Whether watch.Parse        *)
(* accepts the parameters is the library's answer, an input here.          *)
(***************************************************************************)

Space == {" ", "\t"}

Services == {<<>>, <<" ">>, <<" ", "\t">>, <<"w", "e", "b">>, <<" ", "d", "b">>}

Configs ==
    [Client : {Nil, "client"}, Service : Services, Tag : {"", "v1"},
     PassingOnly : BOOLEAN, AllowStale : BOOLEAN, Logger : {Nil, "custom"}]

ParseErrors == {Nil, "invalid watch parameters"}

(* strings.TrimSpace *)
RECURSIVE TrimLeft(_)
TrimLeft(s) ==
    IF s # <<>> /\ Head(s) \in Space THEN TrimLeft(Tail(s)) ELSE s

RECURSIVE TrimRight(_)
TrimRight(s) ==
    IF s # <<>> /\ s[Len(s)] \in Space
    THEN TrimRight(SubSeq(s, 1, Len(s) - 1)) ELSE s

TrimSpace(s) == TrimRight(TrimLeft(s))

validate_untrimmed(ic) ==
    IF ic.Client = Nil \/ ic.Service = <<>>
    THEN [panic |-> TRUE, config |-> ic]
    ELSE [panic |-> FALSE,
          config |-> IF ic.Logger = Nil
                     THEN [ic EXCEPT !.Logger = "hclog.Default"] ELSE ic]

(* lines 45-55: validate panics, or leaves the config with a logger. *)
validate(ic) ==
    IF ic.Client = Nil \/ TrimSpace(ic.Service) = <<>>
    THEN [panic |-> TRUE, config |-> ic]
    ELSE [panic |-> FALSE,
          config |-> IF ic.Logger = Nil
                     THEN [ic EXCEPT !.Logger = "hclog.Default"] ELSE ic]

(* lines 88-96: the parameters of the watch plan. *)
Params(config) ==
    LET base == [k \in {"type", "service", "passingonly", "stale"} |->
                    CASE k = "type" -> "service"
                      [] k = "service" -> config.Service
                      [] k = "passingonly" -> config.PassingOnly
                      [] k = "stale" -> config.AllowStale]
    IN  IF config.Tag # "" THEN base @@ ("tag" :> config.Tag) ELSE base

NoParams == <<>>

(* The nil error. *)
NilError == [msg |-> "", service |-> <<>>, wraps |-> Nil]

(* The frame of a call of NewInstancer with config, before its first line. *)
NewCall(config, parseErr) ==
    [pc |-> "validate", arg |-> config, config |-> config,
     parseErr |-> parseErr, params |-> NoParams, instancer |-> Nil, err |-> NilError,
     started |-> 0]

(* The frame of a call of NewInstancer that returned an Instancer. *)
NewReturned(config) ==
    [NewCall(validate(config).config, Nil) EXCEPT
        !.pc = "returned", !.params = Params(validate(config).config),
        !.instancer = "instancer", !.started = 1]

TheConfig ==
    [Client |-> "client", Service |-> <<"w", "e", "b">>, Tag |-> "",
     PassingOnly |-> TRUE, AllowStale |-> FALSE, Logger |-> Nil]

(***************************************************************************)
(* Watch, src/watch.go lines 67-123: the options, what the plan hands to   *)
(* the handler, and the frame of a call.  cfg.UnmarshalBinary is the       *)
(* application's: it takes some values and fails on the others.            *)
(***************************************************************************)
MaxDeliveries == 2

WatchOptionsSet ==
    [Logger : {Nil, "custom"}, PanicOnUnmarshalFailure : BOOLEAN,
     WatchNotification : {Nil, "callback"}]

KVPair(value) == [type |-> "*api.KVPair", value |-> value]

(* nil when the key is absent, a pair, or a value of another type. *)
Raws ==
    {[type |-> Nil, value |-> ""], [type |-> "string", value |-> ""],
     KVPair("a: 1"), KVPair("a: 2"), KVPair("a: {")}

(* cfg.UnmarshalBinary(kv.Value): the error, nil when the value is taken. *)
UnmarshalBinary(value) ==
    IF value \in {"a: 1", "a: 2"} THEN Nil ELSE "unmarshal failed"

NoWatch ==
    [pc |-> "none", opts |-> <<>>, key |-> "", parseErr |-> Nil,
     logger |-> Nil, cfg |-> "", raw |-> <<>>, deliveries |-> <<>>,
     notifications |-> <<>>, err |-> Nil]

(* The frame of a call of Watch, before its first line. *)
WatchCall(opts, parseErr) ==
    [NoWatch EXCEPT !.pc = "start", !.opts = opts, !.key = "config/app",
                    !.parseErr = parseErr]

(***************************************************************************)
(* KVClient, src/kv.go lines 63-189.  Consul's KV store is a map from key  *)
(* to value (NoValue where the key is absent); a call of the Consul API    *)
(* either fails to reach Consul (commErr) or acts on the store.  Each      *)
(* method is an operator from the store and its arguments to the store     *)
(* after it, the requests it sent, and how it ended: the values returned,  *)
(* or the panic.                                                           *)
(***************************************************************************)
Keys == {"k1", "k2"}

NoValue == "<absent>"

CommErrors == {Nil, "connection refused"}

(* What is passed as `v any`: a struct that marshals, and a value whose
   marshaller returns an error. *)
GoValues == {[type |-> "Config", a |-> 1], [type |-> "Failing", a |-> 0]}

NoGoValue == [type |-> "", a |-> 0]

(* json.MarshalIndent(v, "", "\t") *)
MarshalIndent(v) ==
    IF v.type = "Config"
    THEN [data |-> "{\n\t\"a\": " \o Itoa(v.a) \o "\n}", err |-> Nil]
    ELSE [data |-> "", err |-> "json: error calling MarshalJSON"]

(* yaml.Marshal(v) *)
Marshal(v) ==
    IF v.type = "Config"
    THEN [data |-> "a: " \o Itoa(v.a) \o "\n", err |-> Nil]
    ELSE [data |-> "", err |-> "yaml: error calling MarshalYAML"]

RawValues == {"x"}

NilPair == [nil |-> TRUE, Key |-> "", Value |-> ""]

(* &api.KVPair{Key: key, Value: value} *)
Pair(key, value) == [nil |-> FALSE, Key |-> key, Value |-> value]

(* c.client.KV().Get(key, q): the pair (nil when the key is absent), the
   error, and the request. *)
KV_Get(store, key, q, commErr) ==
    [kv |-> IF commErr = Nil /\ store[key] # NoValue
            THEN Pair(key, store[key]) ELSE NilPair,
     err |-> commErr,
     req |-> [method |-> "GET", key |-> key, value |-> "", q |-> q]]

(* c.client.KV().Put(kv, nil): the store after, the error, the request. *)
KV_Put(store, kv, commErr) ==
    [store |-> IF commErr = Nil THEN [store EXCEPT ![kv.Key] = kv.Value]
               ELSE store,
     err |-> commErr,
     req |-> [method |-> "PUT", key |-> kv.Key, value |-> kv.Value,
              q |-> Nil]]

(* c.client.KV().Delete(key, nil) *)
KV_Delete(store, key, commErr) ==
    [store |-> IF commErr = Nil THEN [store EXCEPT ![key] = NoValue]
               ELSE store,
     err |-> commErr,
     req |-> [method |-> "DELETE", key |-> key, value |-> "", q |-> Nil]]

QueryOptions(allowStale) == [AllowStale |-> allowStale]

(* option.None[KeyValue](), option.Some(KeyValue{base: kv}) *)
None == [some |-> FALSE, base |-> NilPair]

Some(kv) == [some |-> TRUE, base |-> kv]

(* How a method ended. *)
Returns(store, reqs, value, err) ==
    [store |-> store, reqs |-> reqs, ret |-> value, err |-> err,
     panic |-> Nil]

Panics(store, reqs, value) ==
    [store |-> store, reqs |-> reqs, ret |-> None, err |-> Nil,
     panic |-> value]

(* lines 81-94 *)
Get(store, key, allowStale, commErr) ==
    LET r == KV_Get(store, key, QueryOptions(allowStale), commErr)
    IN  IF r.err # Nil THEN Returns(store, <<r.req>>, None, r.err)
        ELSE IF r.kv.nil THEN Returns(store, <<r.req>>, None, Nil)
        ELSE Returns(store, <<r.req>>, Some(r.kv), Nil)

MustGet_lenient(store, key, allowStale, commErr) ==
    LET r == KV_Get(store, key, QueryOptions(allowStale), commErr)
    IN  IF r.err # Nil
        THEN Panics(store, <<r.req>>,
                    "error retrieving key " \o key \o " from Consul: "
                        \o r.err)
        ELSE Returns(store, <<r.req>>, Some(r.kv), Nil)

(* lines 98-111: the KeyValue returned is in ret as Some(kv). *)
MustGet(store, key, allowStale, commErr) ==
    LET r == KV_Get(store, key, QueryOptions(allowStale), commErr)
    IN  IF r.err # Nil
        THEN Panics(store, <<r.req>>,
                    "error retrieving key " \o key \o " from Consul: "
                        \o r.err)
        ELSE IF r.kv.nil
        THEN Panics(store, <<r.req>>, "key " \o key \o " doesn't exist")
        ELSE Returns(store, <<r.req>>, Some(r.kv), Nil)

(* lines 113-120 *)
Put(store, key, value, commErr) ==
    LET r == KV_Put(store, Pair(key, value), commErr)
    IN  Returns(r.store, <<r.req>>, None, r.err)

(* lines 122-130 *)
MustPut(store, key, value, commErr) ==
    LET r == KV_Put(store, Pair(key, value), commErr)
    IN  IF r.err # Nil
        THEN Panics(r.store, <<r.req>>,
                    "failed to put KV with key " \o key \o " in Consul: "
                        \o r.err)
        ELSE Returns(r.store, <<r.req>>, None, Nil)

(* lines 132-143 *)
PutJSON(store, key, v, commErr) ==
    LET m == MarshalIndent(v)
        r == KV_Put(store, Pair(key, m.data), commErr)
    IN  IF m.err # Nil
        THEN Returns(store, <<>>, None,
                     "error marshalling value to JSON: " \o m.err)
        ELSE Returns(r.store, <<r.req>>, None, r.err)

(* lines 145-157 *)
MustPutJSON(store, key, v, commErr) ==
    LET m == MarshalIndent(v)
        r == KV_Put(store, Pair(key, m.data), commErr)
    IN  IF m.err # Nil
        THEN Panics(store, <<>>, "error marshalling value to JSON: " \o m.err)
        ELSE IF r.err # Nil
        THEN Panics(r.store, <<r.req>>,
                    "failed to put KV with key " \o key \o " in Consul: "
                        \o r.err)
        ELSE Returns(r.store, <<r.req>>, None, Nil)

(* lines 159-170 *)
PutYAML(store, key, v, commErr) ==
    LET m == Marshal(v)
        r == KV_Put(store, Pair(key, m.data), commErr)
    IN  IF m.err # Nil
        THEN Returns(store, <<>>, None,
                     "error marshalling value to YAML: " \o m.err)
        ELSE Returns(r.store, <<r.req>>, None, r.err)

(* lines 172-184 *)
MustPutYAML(store, key, v, commErr) ==
    LET m == Marshal(v)
        r == KV_Put(store, Pair(key, m.data), commErr)
    IN  IF m.err # Nil
        THEN Panics(store, <<>>, "error marshalling value to YAML: " \o m.err)
        ELSE IF r.err # Nil
        THEN Panics(r.store, <<r.req>>,
                    "failed to put KV with key " \o key \o " in Consul: "
                        \o r.err)
        ELSE Returns(r.store, <<r.req>>, None, Nil)

(* lines 186-189 *)
Delete(store, key, commErr) ==
    LET r == KV_Delete(store, key, commErr)
    IN  Returns(r.store, <<r.req>>, None, r.err)

(* The arguments of a call of a method of KVClient, and what Consul does. *)
KVArgs(key, allowStale, value, v, commErr) ==
    [key |-> key, allowStale |-> allowStale, value |-> value, v |-> v,
     commErr |-> commErr]

NoKVCall ==
    [op |-> "", args |-> KVArgs("", FALSE, "", NoGoValue, Nil),
     before |-> [k \in Keys |-> NoValue],
     out |-> Returns([k \in Keys |-> NoValue], <<>>, None, Nil)]

(* lines 67-75: NewKVClient(c) with a client, talking to an empty store. *)
NewKVClient ==
    [pc |-> "ready", store |-> [k \in Keys |-> NoValue], call |-> NoKVCall]

(* A call of a method: the store after it, and the record of the call.  A
   panic ends the program. *)
KVCall(op, args, out) ==
    /\ kvClient.pc = "ready"
    /\ kvClient' =
          [pc |-> IF out.panic # Nil THEN "panicked" ELSE "ready",
           store |-> out.store,
           call |-> [op |-> op, args |-> args, before |-> kvClient.store,
                     out |-> out]]

(***************************************************************************)
(* The hclog wrappers of a zap and of a zerolog logger, src/log/zap/zap.go *)
(* and src/log/zerolog/zerolog.go.  A Wrapper is a value: the wrapped      *)
(* logger and a name.  Of the wrapped logger the model keeps its name: a   *)
(* zap logger has one, which its Named extends; a zerolog logger has none. *)
(***************************************************************************)
MaxWrappers == 4

Names == {"a", "b"}

(* fmt.Sprintf("%s.%s", w.name, name) *)
SprintfDot(a, b) == a \o "." \o b

(* Named(s) of the wrapped zap logger: a new segment after its name. *)
ZapNamed(logger, s) ==
    IF s = "" THEN logger
    ELSE IF logger = "" THEN s ELSE SprintfDot(logger, s)

(* zap.go lines 20-28: Wrap(logger), logger not nil and without a name *)
zap_Wrap == [logger |-> "", name |-> ""]

(* zap.go lines 100-102 *)
zap_Name(w) == w.name

(* zap.go lines 104-116 *)
zap_Named(w, name) ==
    LET newName == IF w.name # "" THEN SprintfDot(w.name, name) ELSE name
    IN  [logger |-> ZapNamed(w.logger, newName), name |-> newName]

(* zap.go lines 118-123 *)
zap_ResetNamed(w, name) ==
    [logger |-> ZapNamed(w.logger, name), name |-> name]

(* zerolog.go lines 20-25: Wrap(logger) *)
zerolog_Wrap == [logger |-> "", name |-> ""]

(* zerolog.go lines 114-116 *)
zerolog_Name(w) == w.name

(* zerolog.go lines 118-129 *)
zerolog_Named(w, name) ==
    LET newName == IF w.name # "" THEN SprintfDot(w.name, name) ELSE name
    IN  [logger |-> w.logger, name |-> newName]

(* zerolog.go lines 131-136 *)
zerolog_ResetNamed(w, name) == [logger |-> w.logger, name |-> name]

(* No wrapper has been made. *)
NoWrappers == [kind |-> "", ws |-> <<>>]

(* A wrapper, with the names given to Named since the last ResetNamed (that
   one included) on the way from Wrap to it. *)
Wrapped(w, given) == [w |-> w, given |-> given]

(***************************************************************************)
(* convertArgsToZapFields, src/log/zap/zap.go lines 153-177: the variadic  *)
(* arguments of a logging call made into zap fields.  An argument is a     *)
(* value of some type; `at` is its position in the list, kept to tell      *)
(* equal values apart.  A field is zap.Any(key, value); keyAt is history:  *)
(* the position of the argument its key was taken from, -1 when the key is *)
(* made up from a position.                                                *)
(***************************************************************************)
MaxArgs == 4

ArgValues ==
    {[type |-> "string", val |-> "k"], [type |-> "string", val |-> "m"],
     [type |-> "int", val |-> "1"]}

(* The argument lists of up to n values. *)
ArgLists(n) ==
    UNION {{[p \in 1..m |-> [type |-> f[p].type, val |-> f[p].val,
                             at |-> p - 1]] : f \in [1..m -> ArgValues]}
           : m \in 0..n}

(* lines 165-167: k, ok := items[0].(string); zap.Any(k, items[1]) *)
KeyedField(k, v) == [Key |-> k.val, Value |-> v, keyAt |-> k.at]

(* lines 169-170, 173: zap.Any(fmt.Sprintf("arg%d", n), v) *)
PositionalField(n, v) ==
    [Key |-> "arg" \o Itoa(n), Value |-> v, keyAt |-> -1]

(* lines 155-175: the loop, from i down in steps of 2. *)
RECURSIVE convertArgs_loop(_, _, _)
convertArgs_loop(args, i, fields) ==
    IF i <= 0 THEN fields
    ELSE
      LET left == IF i - 2 < 0 THEN 0 ELSE i - 2
          items == SubSeq(args, left + 1, i)
          l == Len(items)
          appended ==
            IF l = 2
            THEN IF items[1].type = "string"
                 THEN Append(fields, KeyedField(items[1], items[2]))
                 ELSE Append(Append(fields,
                                    PositionalField(i - 1, items[2])),
                             PositionalField(left, items[1]))
            ELSE Append(fields, PositionalField(left, items[1]))
      IN  convertArgs_loop(args, i - 2, appended)

(* lines 153-177 *)
convertArgsToZapFields(args) == convertArgs_loop(args, Len(args), <<>>)

NoConvert == [pc |-> "none", args |-> <<>>, fields |-> <<>>]

(***************************************************************************)
(* NewInstancer, lines 103-112: the state of a new Instancer.              *)
(***************************************************************************)
Init ==
    /\ stopped = FALSE
    /\ instances = 1
    /\ heap = [r \in {1} |-> <<>>]
    /\ listeners = <<>>
    /\ counter = 0
    /\ writer = NoThread
    /\ readers = {}
    /\ pc = [t \in Threads |-> IF t = Feed THEN "run" ELSE "idle"]
    /\ loc = [t \in Threads |-> LocNone]
    /\ data = NoData
    /\ got = [l \in Listeners |-> NoRef]
    /\ ret = [c \in Clients |-> RetNone]
    /\ hist = <<>>
    /\ dropped = <<>>
    /\ notif = <<>>
    /\ picks = <<>>
    /\ calls = [picks |-> 0, others |-> 0, running |-> 0, nonempty |-> 0]
    /\ writes = 0
    /\ closeRet = FALSE
    /\ closes = <<>>
    /\ newInstancer = NewReturned(TheConfig)
    /\ kvWatch = NoWatch
    /\ kvClient = NewKVClient
    /\ logWrap = NoWrappers
    /\ zapFields = NoConvert

(***************************************************************************)
(* sync.RWMutex and plan.IsStopped                                         *)
(***************************************************************************)
CanLock == writer = NoThread /\ readers = {}

CanRLock == writer = NoThread

(* The process runs until a goroutine panics with nobody to recover: the
   goroutine of the plan, lines 116-132. *)
Alive == pc[Feed] # "panicked"

IsStopped_never == FALSE

(* i.plan.IsStopped(), lines 158, 177, 195 *)
IsStopped == stopped

(* A caller that is not in a call starts one.  Callers are interchangeable:
   the second one is used only while the first is in a call.  The model
   follows MaxCalls calls of any kind, and MaxPicks calls when all of them
   are calls of Instance. *)
Begin(c, op) ==
    /\ pc[c] = "idle"
    /\ c = "c2" => pc["c1"] # "idle"
    /\ \/ calls.picks + calls.others < MaxCalls
       \/ op = "Instance" /\ calls.others = 0 /\ calls.picks < MaxPicks
    /\ calls' = IF op = "Instance"
                THEN [calls EXCEPT !.picks = @ + 1,
                                   !.running = IF stopped THEN @ ELSE @ + 1]
                                   ELSE [calls EXCEPT !.others = @ + 1]

(* What c's call returns: its outcome and the history the claims refer to. *)
Result(c, op, out) ==
    [RetNone EXCEPT !.seq = ret[c].seq + 1, !.op = op, !.out = out,
                    !.k0 = loc[c].k0, !.k1 = Epoch, !.clean = ~stopped]

Return(c, r) ==
    /\ ret' = [ret EXCEPT ![c] = r]
    /\ pc' = [pc EXCEPT ![c] = "idle"]
    /\ loc' = [loc EXCEPT ![c] = LocNone]

(***************************************************************************)
(* Instance, lines 176-189                                                 *)
(***************************************************************************)
SelectIndex_post(old, n) == (old + 1) % n

(* lines 186-187: old % uint64(len(i.instances)) *)
SelectIndex(old, n) == old % n

(* lines 177-179: the check of plan.IsStopped, before the lock is taken. *)
Instance_check(c) ==
    /\ Alive
    /\ UNCHANGED <<elsewhere, writes, stopped, instances, listeners, counter, writer, readers,
                   data, got, hist, dropped, notif, picks, closeRet, closes>>
    /\ Begin(c, "Instance")
    /\ IF IsStopped
       THEN /\ ret' = [ret EXCEPT ![c] = [Result(c, "Instance", "panic_closed")
                                            EXCEPT !.k0 = Epoch]]
            /\ UNCHANGED <<pc, loc>>
       ELSE /\ pc' = [pc EXCEPT ![c] = "I_rlock"]
            /\ loc' = [loc EXCEPT ![c].k0 = Epoch]
            /\ ret' = ret
    /\ Store(heap)

(* lines 180-185: RLock, and the test of len(i.instances). *)
Instance_rlock(c) ==
    /\ Alive
    /\ UNCHANGED <<elsewhere, writes, stopped, instances, listeners, counter, writer, data, got,
                   hist, dropped, notif, picks, closeRet, closes>>
    /\ pc[c] = "I_rlock"
    /\ CanRLock
    /\ LET n == Len(heap[instances]) IN
       IF n = 0
       THEN /\ Return(c, Result(c, "Instance", "ok"))
            /\ UNCHANGED <<readers, calls>>
       ELSE /\ readers' = readers \cup {c}
            /\ calls' = [calls EXCEPT !.nonempty = @ + 1]
            /\ loc' = [loc EXCEPT ![c].n = n, ![c].ref = instances]
            /\ pc' = [pc EXCEPT ![c] = "I_add"]
            /\ ret' = ret
    /\ Store(heap)

(* lines 186-187: the atomic add, and the index from the length; the length
   is the one read at line 183 or a new read of i.instances.  A length of 0
   is a division by zero; the deferred RUnlock runs.  The counter is a
   uint64 that starts at 0: the calls followed here stay far below 2^64, and
   the add is modelled without its wrap. *)
AddUint64_none(addr, delta) == addr

(* line 186: atomic.AddUint64(&i.counter, 1), the new value *)
AddUint64(addr, delta) == addr + delta

Instance_add(c) ==
    /\ Alive
    /\ UNCHANGED <<elsewhere, writes, stopped, instances, listeners, writer, data, got, hist,
                   dropped, notif, calls, closeRet, closes>>
    /\ pc[c] = "I_add"
    /\ counter' = AddUint64(counter, 1)
    /\ picks' = Append(picks, [done |-> FALSE, ep |-> "", idx |-> 0,
                               k |-> Epoch, clean |-> ~stopped])
    /\ \E n \in {loc[c].n, Len(heap[instances])} :
          IF n = 0
          THEN /\ Return(c, Result(c, "Instance", "panic_divide"))
               /\ readers' = readers \ {c}
          ELSE /\ loc' = [loc EXCEPT ![c].old = counter,
                                     ![c].idx = SelectIndex(counter, n)]
               /\ pc' = [pc EXCEPT ![c] = "I_index"]
               /\ UNCHANGED <<ret, readers>>
    /\ Store(heap)

(* line 188: i.instances[idx], through the slice read at line 183 or a new
   read of i.instances; an index out of range panics; RUnlock. *)
Instance_index(c) ==
    /\ Alive
    /\ UNCHANGED <<elsewhere, writes, stopped, instances, listeners, counter, writer, data, got,
                   hist, dropped, notif, calls, closeRet, closes>>
    /\ pc[c] = "I_index"
    /\ \E r \in {loc[c].ref, instances} :
          LET s == heap[r]
              idx == loc[c].idx
              p == loc[c].old + 1
          IN  IF idx >= Len(s)
              THEN /\ Return(c, Result(c, "Instance", "panic_index"))
                   /\ picks' = picks
              ELSE /\ Return(c, [Result(c, "Instance", "ok")
                                   EXCEPT !.found = TRUE, !.ep = s[idx + 1]])
                   /\ picks' = [picks EXCEPT
                                  ![p] = [done |-> TRUE, ep |-> s[idx + 1],
                                          idx |-> idx, k |-> picks[p].k,
                                          clean |-> picks[p].clean /\ ~stopped]]
    /\ readers' = readers \ {c}
    /\ Store(heap)

(***************************************************************************)
(* Instances, lines 194-203                                                *)
(***************************************************************************)
InstancesReturn_stored(c) == instances

(* line 202: what Instances returns is the slice it made. *)
InstancesReturn(c) == loc[c].ref

(* lines 195-197 *)
Instances_check(c) ==
    /\ Alive
    /\ UNCHANGED <<elsewhere, writes, stopped, instances, listeners, counter, writer, readers,
                   data, got, hist, dropped, notif, picks, closeRet, closes>>
    /\ Begin(c, "Instances")
    /\ IF IsStopped
       THEN /\ ret' = [ret EXCEPT ![c] = [Result(c, "Instances", "panic_closed")
                                            EXCEPT !.k0 = Epoch]]
            /\ UNCHANGED <<pc, loc>>
       ELSE /\ pc' = [pc EXCEPT ![c] = "S_rlock"]
            /\ loc' = [loc EXCEPT ![c].k0 = Epoch]
            /\ ret' = ret
    /\ Store(heap)

(* lines 198-200: RLock, and make([]string, len(i.instances)). *)
Instances_make(c) ==
    /\ Alive
    /\ UNCHANGED <<elsewhere, writes, stopped, instances, listeners, counter, writer, data, got,
                   ret, hist, dropped, notif, picks, calls, closeRet, closes>>
    /\ pc[c] = "S_rlock"
    /\ CanRLock
    /\ readers' = readers \cup {c}
    /\ LET r == NewRef(heap) IN
       /\ loc' = [loc EXCEPT ![c].ref = r]
       /\ pc' = [pc EXCEPT ![c] = "S_copy"]
       /\ Store(heap @@ (r :> Make(Len(heap[instances]))))

CopySlice_swapped(h, dst, src) == [h EXCEPT ![src] = Copy(h[src], h[dst])]

(* line 201: copy(instances, i.instances), on the backing arrays. *)
CopySlice(h, dst, src) == [h EXCEPT ![dst] = Copy(h[dst], h[src])]

(* lines 201-202: copy(instances, i.instances), RUnlock, return. *)
Instances_copy(c) ==
    /\ Alive
    /\ UNCHANGED <<elsewhere, writes, stopped, instances, listeners, counter, writer, data, got,
                   hist, dropped, notif, picks, calls, closeRet, closes>>
    /\ pc[c] = "S_copy"
    /\ LET r == loc[c].ref
           h == CopySlice(heap, r, instances)
           out == InstancesReturn(c)
       IN  /\ Return(c, [Result(c, "Instances", "ok")
                           EXCEPT !.ref = out, !.val = h[out]])
           /\ Store(h)
    /\ readers' = readers \ {c}

(***************************************************************************)
(* InstanceListener.OnChange, lines 17-19: the listener is handed the      *)
(* slice r; it keeps it.  What it does then is the application's: it       *)
(* returns, it panics, or it calls Instance or Instances of the Instancer  *)
(* that invoked it.                                                        *)
(***************************************************************************)
Reentered == {"Instance", "Instances"}

(* Where a call of op waits for the read lock, lines 180 and 198. *)
RLockOf(op) == IF op = "Instance" THEN "I_rlock" ELSE "S_rlock"

OnChange(l, r, h, kind) ==
    /\ notif' = Append(notif, [l |-> l, kind |-> kind, val |-> h[r],
                               k |-> Epoch, clean |-> ~stopped])
    /\ got' = [got EXCEPT ![l] = r]

(***************************************************************************)
(* RegisterListener, lines 155-169                                         *)
(***************************************************************************)
(* lines 156-160: Lock, and the check of plan.IsStopped under it. *)
RegisterListener_lock(c, l) ==
    /\ Alive
    \* listeners are interchangeable: the second is used after the first
    /\ l = "l2" => \E j \in 1..Len(notif) : notif[j].l = "l1"
    /\ UNCHANGED <<elsewhere, writes, stopped, instances, listeners, counter, readers, data, got,
                   hist, dropped, notif, picks, closeRet, closes>>
    /\ Begin(c, "RegisterListener")
    /\ CanLock
    /\ IF IsStopped
       THEN /\ ret' = [ret EXCEPT
                         ![c] = [Result(c, "RegisterListener", "panic_closed")
                                   EXCEPT !.k0 = Epoch]]
            /\ UNCHANGED <<pc, loc, writer>>
       ELSE /\ writer' = c
            /\ pc' = [pc EXCEPT ![c] = "R_append"]
            /\ loc' = [loc EXCEPT ![c].k0 = Epoch, ![c].l = l]
            /\ ret' = ret
    /\ Store(heap)

AppendListener_once(ls, l) ==
    IF \E j \in 1..Len(ls) : ls[j] = l THEN ls ELSE Append(ls, l)

(* line 161: append(i.listeners, l) *)
AppendListener(ls, l) == Append(ls, l)

(* line 161: i.listeners = append(i.listeners, l) *)
RegisterListener_append(c) ==
    /\ Alive
    /\ UNCHANGED <<elsewhere, writes, stopped, instances, counter, writer, readers, heap, loc,
                   data, got, ret, hist, dropped, notif, picks, calls,
                   closeRet, closes>>
    /\ pc[c] = "R_append"
    /\ listeners' = AppendListener(listeners, loc[c].l)
    /\ pc' = [pc EXCEPT ![c] = "R_make"]

(* line 166: make([]string, len(i.instances)) *)
RegisterListener_make(c) ==
    /\ Alive
    /\ UNCHANGED <<elsewhere, writes, stopped, instances, listeners, counter, writer, readers,
                   data, got, ret, hist, dropped, notif, picks, calls,
                   closeRet, closes>>
    /\ pc[c] = "R_make"
    /\ LET r == NewRef(heap) IN
       /\ loc' = [loc EXCEPT ![c].ref = r]
       /\ pc' = [pc EXCEPT ![c] = "R_copy"]
       /\ Store(heap @@ (r :> Make(Len(heap[instances]))))

(* lines 167-169: copy, l.OnChange(instancesCopy), the deferred Unlock. *)
RegisterListener_notify(c) ==
    /\ Alive
    /\ UNCHANGED <<elsewhere, writes, stopped, instances, listeners, counter, readers, data,
                   hist, dropped, picks, calls, closeRet, closes>>
    /\ pc[c] = "R_copy"
    /\ LET r == loc[c].ref
           h == [heap EXCEPT ![r] = Copy(heap[r], heap[instances])]
       IN  /\ OnChange(loc[c].l, r, h, "registered")
           /\ Return(c, Result(c, "RegisterListener", "ok"))
           /\ Store(h)
    /\ writer' = NoThread

(* lines 167-169: copy, l.OnChange(instancesCopy) panics: the deferred
   Unlock runs and the panic reaches the caller of RegisterListener. *)
RegisterListener_notify_panic(c) ==
    /\ Alive
    /\ UNCHANGED <<elsewhere, writes, stopped, instances, listeners, counter,
                   readers, data, hist, dropped, picks, calls, closeRet, closes>>
    /\ pc[c] = "R_copy"
    /\ LET r == loc[c].ref
           h == [heap EXCEPT ![r] = Copy(heap[r], heap[instances])]
       IN  /\ OnChange(loc[c].l, r, h, "registered")
           /\ Return(c, Result(c, "RegisterListener", "panic_listener"))
           /\ Store(h)
    /\ writer' = NoThread

(* lines 167-168: copy, l.OnChange(instancesCopy) calls Instance or
   Instances: past the check of plan.IsStopped (a panic if it is stopped,
   the step above), the call waits for the read lock, lines 180 and 198,
   on the goroutine that holds the write lock. *)
RegisterListener_notify_reenter(c, op) ==
    /\ Alive
    /\ UNCHANGED <<elsewhere, writes, stopped, instances, listeners, counter,
                   writer, readers, data, ret, hist, dropped, picks, calls,
                   closeRet, closes>>
    /\ pc[c] = "R_copy"
    /\ ~IsStopped
    /\ LET r == loc[c].ref
           h == [heap EXCEPT ![r] = Copy(heap[r], heap[instances])]
       IN  /\ OnChange(loc[c].l, r, h, "registered")
           /\ pc' = [pc EXCEPT ![c] = RLockOf(op)]
           /\ loc' = loc
           /\ Store(h)

(***************************************************************************)
(* Close, lines 139-143: no lock is taken.                                 *)
(***************************************************************************)
(* Nothing but c's call is in flight: no other call, no change event. *)
OthersQuiet(c) ==
    /\ \A d \in Clients \ {c} : pc[d] = "idle"
    /\ pc[Feed] \in {"run", "exited"}

MakeListeners_keep(n) == listeners

(* line 142: make([]InstanceListener, 0) *)
MakeListeners(n) == [j \in 1..n |-> Nil]

Stop_toggle(stop) == ~stop

Stop_noop(stop) == stop

(* line 140: plan.Stop() sets the plan's stop flag; on a stopped plan it
   returns at once. *)
Stop(stop) == TRUE

(* line 140: i.plan.Stop() *)
Close_stop(c) ==
    /\ Alive
    /\ UNCHANGED <<elsewhere, writes, instances, listeners, counter, writer, readers, heap, data,
                   got, ret, hist, dropped, notif, picks, closeRet, closes>>
    /\ Begin(c, "Close")
    /\ stopped' = Stop(stopped)
    /\ pc' = [pc EXCEPT ![c] = "C_instances"]
    /\ loc' = [loc EXCEPT ![c].k0 = Epoch, ![c].alone = OthersQuiet(c),
                          ![c].calls0 = calls'.picks + calls'.others,
                          ![c].closes0 = Len(closes)]

(* line 141: i.instances = make([]string, 0) *)
Close_instances(c) ==
    /\ Alive
    /\ UNCHANGED <<elsewhere, writes, stopped, listeners, counter, writer, readers, data, hist,
                   dropped, notif, picks, calls, closeRet, closes>>
    /\ pc[c] = "C_instances"
    /\ LET r == NewRef(heap) IN
       /\ instances' = r
       /\ pc' = [pc EXCEPT ![c] = "C_listeners"]
       /\ UNCHANGED <<loc, ret, got>>
       /\ Store(heap @@ (r :> Make(0)))

(* line 142: i.listeners = make([]InstanceListener, 0), and the return. *)
Close_listeners(c) ==
    /\ Alive
    /\ UNCHANGED <<elsewhere, writes, stopped, instances, counter, writer, readers, data, got,
                   hist, dropped, notif, picks, calls>>
    /\ pc[c] = "C_listeners"
    /\ listeners' = MakeListeners(0)
    /\ closeRet' = TRUE
    /\ closes' = Append(closes,
          [alone |-> /\ loc[c].alone
                     /\ OthersQuiet(c)
                     /\ calls.picks + calls.others = loc[c].calls0,
           after |-> loc[c].closes0,
           stopped |-> stopped, instances |-> heap[instances],
           listeners |-> listeners', notified |-> Len(notif)])
    /\ Return(c, Result(c, "Close", "ok"))
    /\ Store(heap)

(***************************************************************************)
(* A caller that holds the slice Instances returned, or a listener that    *)
(* holds the slice it was handed, writes into it.                          *)
(***************************************************************************)
HeldRefs ==
    ({ret[c].ref : c \in Clients} \cup {got[l] : l \in Listeners}) \ {NoRef}

ModifyList(r) ==
    /\ Alive
    /\ UNCHANGED <<elsewhere, stopped, instances, listeners, counter, writer, readers,
                   pc, loc, data, got, ret, hist, dropped, notif, picks,
                   calls, closeRet, closes>>
    /\ r \in HeldRefs
    /\ writes < MaxWrites
    /\ writes' = writes + 1
    /\ Len(heap[r]) > 0
    /\ heap[r][1] # Scribble
    /\ heap' = [heap EXCEPT ![r][1] = Scribble]

Modify == \E r \in HeldRefs : ModifyList(r)

(***************************************************************************)
(* The goroutine NewInstancer starts, lines 114-132: the plan's run loop   *)
(* calls plan.Handler with each change it sees, one call at a time, until  *)
(* it finds the plan stopped and returns nil, or gives up and returns an   *)
(* error.                                                                  *)
(***************************************************************************)
RunErrors == {"plan failed"}

OnRunEnd_ignore(err) == "exited"

(* lines 122-131: if err := plan.Run...(); err != nil { ... panic(...) } *)
OnRunEnd(err) == IF err # Nil THEN "panicked" ELSE "exited"

Run_deliver ==
    /\ Alive
    /\ UNCHANGED <<elsewhere, writes, stopped, instances, listeners, counter, writer, readers,
                   heap, loc, got, ret, hist, dropped, notif, picks, calls,
                   closeRet, closes>>
    /\ pc[Feed] = "run"
    /\ ~stopped
    /\ Len(hist) + Len(dropped) < MaxEvents
    /\ \E d \in Payloads : data' = d
    /\ pc' = [pc EXCEPT ![Feed] = "handler"]

Run_exit ==
    /\ Alive
    /\ UNCHANGED <<elsewhere, writes, stopped, instances, listeners, counter, writer, readers,
                   heap, loc, data, got, ret, hist, dropped, notif, picks,
                   calls, closeRet, closes>>
    /\ pc[Feed] = "run"
    /\ stopped
    /\ pc' = [pc EXCEPT ![Feed] = OnRunEnd(Nil)]

Run_error ==
    /\ Alive
    /\ UNCHANGED <<elsewhere, writes, stopped, instances, listeners, counter,
                   writer, readers, heap, data, got, ret, hist, dropped,
                   notif, picks, calls, closeRet, closes>>
    /\ pc[Feed] = "run"
    /\ \E err \in RunErrors :
          /\ loc' = [loc EXCEPT ![Feed].err = err]
          /\ pc' = [pc EXCEPT ![Feed] = OnRunEnd(err)]

(***************************************************************************)
(* handler, lines 205-241                                                  *)
(***************************************************************************)
IsEntries_any(d) == TRUE

(* lines 208-209: the type switch, case []*api.ServiceEntry. *)
IsEntries(d) == d.kind = "entries"

(* lines 238-239: any other type is logged and dropped. *)
handler_default ==
    /\ Alive
    /\ UNCHANGED <<elsewhere, writes, stopped, instances, listeners, counter, writer, readers,
                   heap, loc, got, ret, hist, notif, picks, calls, closeRet, closes>>
    /\ pc[Feed] = "handler"
    /\ ~IsEntries(data)
    /\ dropped' = Append(dropped, Epoch)
    /\ data' = NoData
    /\ pc' = [pc EXCEPT ![Feed] = "run"]

HandlerLock_none == TRUE

(* lines 210-211: i.mutex.Lock() in the handler. *)
HandlerLock == CanLock

(* lines 210-220: Lock, build the list, i.instances = instances. *)
handler_refresh ==
    /\ Alive
    /\ UNCHANGED <<elsewhere, writes, stopped, listeners, counter, readers, data, dropped, notif,
                   picks, calls, closeRet, closes>>
    /\ pc[Feed] = "handler"
    /\ IsEntries(data)
    /\ HandlerLock
    /\ writer' = Feed
    /\ LET r == NewRef(heap)
           list == BuildInstances(data.entries)
       IN  /\ instances' = r
           /\ hist' = Append(hist, [batch |-> data.entries, snap |-> list])
           /\ pc' = [pc EXCEPT ![Feed] = "H_len"]
           /\ UNCHANGED <<loc, ret, got>>
           /\ Store(heap @@ (r :> list))

(* line 226: if len(i.listeners) > 0; if not, the deferred Unlock. *)
handler_len ==
    /\ Alive
    /\ UNCHANGED <<elsewhere, writes, stopped, instances, listeners, counter, readers, heap, loc,
                   got, ret, hist, dropped, notif, picks, calls, closeRet, closes>>
    /\ pc[Feed] = "H_len"
    /\ IF Len(listeners) > 0
       THEN /\ pc' = [pc EXCEPT ![Feed] = "H_make"]
            /\ UNCHANGED <<writer, data>>
       ELSE /\ pc' = [pc EXCEPT ![Feed] = "run"]
            /\ writer' = NoThread
            /\ data' = NoData

(* line 227: make([]string, len(i.instances)) *)
handler_make ==
    /\ Alive
    /\ UNCHANGED <<elsewhere, writes, stopped, instances, listeners, counter, writer, readers,
                   data, got, ret, hist, dropped, notif, picks, calls,
                   closeRet, closes>>
    /\ pc[Feed] = "H_make"
    /\ LET r == NewRef(heap) IN
       /\ loc' = [loc EXCEPT ![Feed].ref = r]
       /\ pc' = [pc EXCEPT ![Feed] = "H_copy"]
       /\ Store(heap @@ (r :> Make(Len(heap[instances]))))

(* lines 228-231: copy, and the range over i.listeners, which reads the
   slice once. *)
handler_copy ==
    /\ Alive
    /\ UNCHANGED <<elsewhere, writes, stopped, instances, listeners, counter, writer, readers,
                   data, got, ret, hist, dropped, notif, picks, calls,
                   closeRet, closes>>
    /\ pc[Feed] = "H_copy"
    /\ LET r == loc[Feed].ref IN
       heap' = [heap EXCEPT ![r] = Copy(heap[r], heap[instances])]
    /\ loc' = [loc EXCEPT ![Feed].ls = listeners, ![Feed].i = 1]
    /\ pc' = [pc EXCEPT ![Feed] = "H_notify"]

RangeListener_reverse(ls, i) == ls[Len(ls) + 1 - i]

(* line 231: for _, listener := range i.listeners, the i-th iteration. *)
RangeListener(ls, i) == ls[i]

(* lines 231-233: listener.OnChange(instancesCopy), for the next listener. *)
handler_notify ==
    /\ Alive
    /\ UNCHANGED <<elsewhere, writes, stopped, instances, listeners, counter, writer, readers,
                   pc, data, ret, hist, dropped, picks, calls, closeRet, closes>>
    /\ pc[Feed] = "H_notify"
    /\ loc[Feed].i <= Len(loc[Feed].ls)
    /\ OnChange(RangeListener(loc[Feed].ls, loc[Feed].i), loc[Feed].ref, heap, "changed")
    /\ loc' = [loc EXCEPT ![Feed].i = @ + 1]
    /\ Store(heap)

(* lines 231-233: listener.OnChange(instancesCopy) panics.  The handler
   recovers nothing: the deferred Unlock runs, the panic leaves the handler
   and the goroutine of the plan, and the process ends. *)
handler_notify_panic ==
    /\ Alive
    /\ UNCHANGED <<elsewhere, writes, stopped, instances, listeners, counter,
                   readers, loc, data, ret, hist, dropped, picks, calls,
                   closeRet, closes>>
    /\ pc[Feed] = "H_notify"
    /\ loc[Feed].i <= Len(loc[Feed].ls)
    /\ OnChange(RangeListener(loc[Feed].ls, loc[Feed].i), loc[Feed].ref, heap, "changed")
    /\ writer' = NoThread
    /\ pc' = [pc EXCEPT ![Feed] = "panicked"]
    /\ Store(heap)

(* lines 231-233: listener.OnChange(instancesCopy) calls Instance or
   Instances (a panic if the plan is stopped, the step above): the call
   waits for the read lock on the goroutine that holds the write lock. *)
handler_notify_reenter(op) ==
    /\ Alive
    /\ UNCHANGED <<elsewhere, writes, stopped, instances, listeners, counter,
                   writer, readers, loc, data, ret, hist, dropped, picks,
                   calls, closeRet, closes>>
    /\ pc[Feed] = "H_notify"
    /\ loc[Feed].i <= Len(loc[Feed].ls)
    /\ ~IsStopped
    /\ OnChange(RangeListener(loc[Feed].ls, loc[Feed].i), loc[Feed].ref, heap, "changed")
    /\ pc' = [pc EXCEPT ![Feed] = RLockOf(op)]
    /\ Store(heap)

(* lines 234-237: the loop is over; the deferred Unlock. *)
handler_return ==
    /\ Alive
    /\ UNCHANGED <<elsewhere, writes, stopped, listeners, counter, readers, hist, dropped, notif,
                   picks, calls, closeRet, closes>>
    /\ pc[Feed] = "H_notify"
    /\ loc[Feed].i > Len(loc[Feed].ls)
    /\ writer' = NoThread
    /\ data' = NoData
    /\ loc' = [loc EXCEPT ![Feed] = LocNone]
    /\ pc' = [pc EXCEPT ![Feed] = "run"]
    /\ UNCHANGED <<ret, got, instances>>
    /\ Store(heap)

Next ==
    \/ \E c \in Clients : Instance_check(c)
    \/ \E c \in Threads : Instance_rlock(c)
    \/ \E c \in Clients : Instance_add(c)
    \/ \E c \in Clients : Instance_index(c)
    \/ \E c \in Clients : Instances_check(c)
    \/ \E c \in Threads : Instances_make(c)
    \/ \E c \in Clients : Instances_copy(c)
    \/ \E c \in Clients, l \in Listeners : RegisterListener_lock(c, l)
    \/ \E c \in Clients : RegisterListener_append(c)
    \/ \E c \in Clients : RegisterListener_make(c)
    \/ \E c \in Clients : RegisterListener_notify(c)
    \/ \E c \in Clients : RegisterListener_notify_panic(c)
    \/ \E c \in Clients, op \in Reentered :
          RegisterListener_notify_reenter(c, op)
    \/ \E c \in Clients : Close_stop(c)
    \/ \E c \in Clients : Close_instances(c)
    \/ \E c \in Clients : Close_listeners(c)
    \/ Modify
    \/ Run_deliver
    \/ Run_exit
    \/ Run_error
    \/ handler_default
    \/ handler_refresh
    \/ handler_len
    \/ handler_make
    \/ handler_copy
    \/ handler_notify
    \/ handler_notify_panic
    \/ \E op \in Reentered : handler_notify_reenter(op)
    \/ handler_return

Spec == Init /\ [][Next]_vars

(***************************************************************************)
(* The call of NewInstancer, step by step.  Before it there is no          *)
(* Instancer and no goroutine of the plan.                                 *)
(***************************************************************************)
NoInstancer ==
    /\ stopped = FALSE
    /\ instances = NoRef
    /\ heap = <<>>
    /\ listeners = <<>>
    /\ counter = 0
    /\ writer = NoThread
    /\ readers = {}
    /\ pc = [t \in Threads |-> IF t = Feed THEN "unstarted" ELSE "idle"]
    /\ loc = [t \in Threads |-> LocNone]
    /\ data = NoData
    /\ got = [l \in Listeners |-> NoRef]
    /\ ret = [c \in Clients |-> RetNone]
    /\ hist = <<>>
    /\ dropped = <<>>
    /\ notif = <<>>
    /\ picks = <<>>
    /\ calls = [picks |-> 0, others |-> 0, running |-> 0, nonempty |-> 0]
    /\ writes = 0
    /\ closeRet = FALSE
    /\ closes = <<>>

InitNew ==
    /\ NoInstancer
    /\ kvWatch = NoWatch
    /\ kvClient = NewKVClient
    /\ logWrap = NoWrappers
    /\ zapFields = NoConvert
    /\ \E config \in Configs, e \in ParseErrors :
          newInstancer = NewCall(config, e)

(* What no step of NewInstancer touches. *)
untouched ==
    <<stopped, writer, readers, loc, data, got, ret, hist, dropped, notif,
      picks, calls, writes, closeRet, closes, kvWatch, kvClient, logWrap,
      zapFields>>

(* line 86: config.validate() *)
NewInstancer_validate ==
    /\ newInstancer.pc = "validate"
    /\ LET v == validate(newInstancer.config) IN
       newInstancer' =
          IF v.panic THEN [newInstancer EXCEPT !.pc = "panicked"]
          ELSE [newInstancer EXCEPT !.pc = "parse", !.config = v.config]
    /\ UNCHANGED <<untouched, instances, heap, listeners, counter, pc>>

OnParseError_partial(config, err) ==
    [instancer |-> "instancer",
     err |-> [msg |-> "error creating watch plan for service",
              service |-> config.Service, wraps |-> err]]

(* lines 99-101: return nil, fmt.Errorf(...) *)
OnParseError(config, err) ==
    [instancer |-> Nil,
     err |-> [msg |-> "error creating watch plan for service",
              service |-> config.Service, wraps |-> err]]

(* lines 88-101: the parameters, watch.Parse, and the return on its error. *)
NewInstancer_parse ==
    /\ newInstancer.pc = "parse"
    /\ LET config == newInstancer.config
           err == newInstancer.parseErr
           out == OnParseError(config, err)
       IN  newInstancer' =
              IF err # Nil
              THEN [newInstancer EXCEPT !.pc = "returned",
                                        !.params = Params(config),
                                        !.instancer = out.instancer,
                                        !.err = out.err]
              ELSE [newInstancer EXCEPT !.pc = "make",
                                        !.params = Params(config)]
    /\ UNCHANGED <<untouched, instances, heap, listeners, counter, pc>>

(* lines 103-114: the Instancer, and plan.Handler = instancer.handler. *)
NewInstancer_make ==
    /\ newInstancer.pc = "make"
    /\ instances' = 1
    /\ heap' = [r \in {1} |-> Make(0)]
    /\ listeners' = <<>>
    /\ counter' = 0
    /\ newInstancer' = [newInstancer EXCEPT !.pc = "go"]
    /\ UNCHANGED <<untouched, pc>>

(* lines 116-134: the go statement, and return instancer, nil. *)
NewInstancer_go ==
    /\ newInstancer.pc = "go"
    /\ pc[Feed] = "unstarted"
    /\ pc' = [pc EXCEPT ![Feed] = "run"]
    /\ newInstancer' = [newInstancer EXCEPT !.pc = "returned",
                                            !.instancer = "instancer",
                                            !.started = @ + 1]
    /\ UNCHANGED <<untouched, instances, heap, listeners, counter>>

NextNew ==
    \/ NewInstancer_validate
    \/ NewInstancer_parse
    \/ NewInstancer_make
    \/ NewInstancer_go

SpecNew == InitNew /\ [][NextNew]_vars

(***************************************************************************)
(* Watch, src/watch.go lines 67-123.  The call blocks in the run loop of   *)
(* its plan, which calls the handler with each change, one at a time.      *)
(***************************************************************************)
InitWatch ==
    /\ NoInstancer
    /\ newInstancer = NewCall(TheConfig, Nil)
    /\ \E opts \in WatchOptionsSet, e \in ParseErrors :
          kvWatch = WatchCall(opts, e)
    /\ kvClient = NewKVClient
    /\ logWrap = NoWrappers
    /\ zapFields = NoConvert

(* What no step of Watch touches. *)
instancerVars ==
    <<stopped, instances, listeners, counter, writer, readers, heap, pc, loc,
      data, got, ret, hist, dropped, notif, picks, calls, writes, closeRet,
      closes, newInstancer, kvClient, logWrap, zapFields>>

(* lines 70-90: the logger, watch.Parse, and the return on its error. *)
Watch_parse ==
    /\ kvWatch.pc = "start"
    /\ LET logger == IF kvWatch.opts.Logger # Nil THEN kvWatch.opts.Logger
                     ELSE "hclog.Default"
       IN  kvWatch' =
              IF kvWatch.parseErr # Nil
              THEN [kvWatch EXCEPT !.pc = "returned", !.logger = logger,
                                   !.err = "failed to parse watch plan"]
              ELSE [kvWatch EXCEPT !.pc = "run", !.logger = logger]
    /\ UNCHANGED instancerVars

(* line 122: the run loop has a change for the handler. *)
WatchRun_deliver ==
    /\ kvWatch.pc = "run"
    /\ Len(kvWatch.deliveries) < MaxDeliveries
    /\ \E raw \in Raws :
          kvWatch' = [kvWatch EXCEPT !.pc = "handler", !.raw = raw,
                                     !.deliveries = Append(@, raw)]
    /\ UNCHANGED instancerVars

(* line 122: the run loop ends with an error, which Watch returns. *)
WatchRun_end ==
    /\ kvWatch.pc = "run"
    /\ \E err \in RunErrors :
          kvWatch' = [kvWatch EXCEPT !.pc = "returned", !.err = err]
    /\ UNCHANGED instancerVars

(* lines 98-100, 107-109, 115-117: if opts.WatchNotification != nil, the
   callback is called with the key and err. *)
WatchNotification(w, err) ==
    IF w.opts.WatchNotification # Nil
    THEN Append(w.notifications,
                [key |-> w.key, err |-> err, delivery |-> Len(w.deliveries)])
    ELSE w.notifications

OnUnmarshalFailure_continue(opts) == "run"

(* lines 111-113: if opts.PanicOnUnmarshalFailure { panic(err) } *)
OnUnmarshalFailure(opts) ==
    IF opts.PanicOnUnmarshalFailure THEN "panicked" ELSE "run"

(* lines 91-120: plan.Handler *)
Watch_handler ==
    /\ kvWatch.pc = "handler"
    /\ LET raw == kvWatch.raw
           err == UnmarshalBinary(raw.value)
       IN  kvWatch' =
              IF raw.type = Nil
              THEN [kvWatch EXCEPT !.pc = "run"]
              ELSE IF raw.type # "*api.KVPair"
              THEN [kvWatch EXCEPT
                      !.pc = "run",
                      !.notifications =
                          WatchNotification(kvWatch, "expected type *api.KVPair")]
              ELSE IF err # Nil
              THEN [kvWatch EXCEPT
                      !.pc = OnUnmarshalFailure(kvWatch.opts),
                      !.notifications = WatchNotification(kvWatch, err)]
              ELSE [kvWatch EXCEPT
                      !.pc = "run", !.cfg = raw.value,
                      !.notifications = WatchNotification(kvWatch, Nil)]
    /\ UNCHANGED instancerVars

NextWatch ==
    \/ Watch_parse
    \/ WatchRun_deliver
    \/ WatchRun_end
    \/ Watch_handler

SpecWatch == InitWatch /\ [][NextWatch]_vars

(***************************************************************************)
(* The methods of KVClient, src/kv.go lines 81-189, called one at a time.  *)
(***************************************************************************)
InitKV ==
    /\ NoInstancer
    /\ newInstancer = NewCall(TheConfig, Nil)
    /\ kvWatch = NoWatch
    /\ kvClient = NewKVClient
    /\ logWrap = NoWrappers
    /\ zapFields = NoConvert

(* What no method of KVClient touches. *)
notKV ==
    <<stopped, instances, listeners, counter, writer, readers, heap, pc, loc,
      data, got, ret, hist, dropped, notif, picks, calls, writes, closeRet,
      closes, newInstancer, kvWatch, logWrap, zapFields>>

KVClient_Get ==
    /\ \E key \in Keys, allowStale \in BOOLEAN, commErr \in CommErrors :
          KVCall("Get", KVArgs(key, allowStale, "", NoGoValue, commErr),
                 Get(kvClient.store, key, allowStale, commErr))
    /\ UNCHANGED notKV

KVClient_MustGet ==
    /\ \E key \in Keys, allowStale \in BOOLEAN, commErr \in CommErrors :
          KVCall("MustGet", KVArgs(key, allowStale, "", NoGoValue, commErr),
                 MustGet(kvClient.store, key, allowStale, commErr))
    /\ UNCHANGED notKV

KVClient_Put ==
    /\ \E key \in Keys, value \in RawValues, commErr \in CommErrors :
          KVCall("Put", KVArgs(key, FALSE, value, NoGoValue, commErr),
                 Put(kvClient.store, key, value, commErr))
    /\ UNCHANGED notKV

KVClient_MustPut ==
    /\ \E key \in Keys, value \in RawValues, commErr \in CommErrors :
          KVCall("MustPut", KVArgs(key, FALSE, value, NoGoValue, commErr),
                 MustPut(kvClient.store, key, value, commErr))
    /\ UNCHANGED notKV

KVClient_PutJSON ==
    /\ \E key \in Keys, v \in GoValues, commErr \in CommErrors :
          KVCall("PutJSON", KVArgs(key, FALSE, "", v, commErr),
                 PutJSON(kvClient.store, key, v, commErr))
    /\ UNCHANGED notKV

KVClient_MustPutJSON ==
    /\ \E key \in Keys, v \in GoValues, commErr \in CommErrors :
          KVCall("MustPutJSON", KVArgs(key, FALSE, "", v, commErr),
                 MustPutJSON(kvClient.store, key, v, commErr))
    /\ UNCHANGED notKV

KVClient_PutYAML ==
    /\ \E key \in Keys, v \in GoValues, commErr \in CommErrors :
          KVCall("PutYAML", KVArgs(key, FALSE, "", v, commErr),
                 PutYAML(kvClient.store, key, v, commErr))
    /\ UNCHANGED notKV

KVClient_MustPutYAML ==
    /\ \E key \in Keys, v \in GoValues, commErr \in CommErrors :
          KVCall("MustPutYAML", KVArgs(key, FALSE, "", v, commErr),
                 MustPutYAML(kvClient.store, key, v, commErr))
    /\ UNCHANGED notKV

KVClient_Delete ==
    /\ \E key \in Keys, commErr \in CommErrors :
          KVCall("Delete", KVArgs(key, FALSE, "", NoGoValue, commErr),
                 Delete(kvClient.store, key, commErr))
    /\ UNCHANGED notKV

NextKV ==
    \/ KVClient_Get
    \/ KVClient_MustGet
    \/ KVClient_Put
    \/ KVClient_MustPut
    \/ KVClient_PutJSON
    \/ KVClient_MustPutJSON
    \/ KVClient_PutYAML
    \/ KVClient_MustPutYAML
    \/ KVClient_Delete

SpecKV == InitKV /\ [][NextKV]_vars

(***************************************************************************)
(* The wrappers made from one logger: Wrap, then Named and ResetNamed on   *)
(* any wrapper made so far.  The calls return new wrappers; the program    *)
(* keeps them all.                                                         *)
(***************************************************************************)
InitLog ==
    /\ NoInstancer
    /\ newInstancer = NewCall(TheConfig, Nil)
    /\ kvWatch = NoWatch
    /\ kvClient = NewKVClient
    /\ \/ logWrap = [kind |-> "zap", ws |-> <<Wrapped(zap_Wrap, <<>>)>>]
       \/ logWrap = [kind |-> "zerolog",
                     ws |-> <<Wrapped(zerolog_Wrap, <<>>)>>]
    /\ zapFields = NoConvert

(* What no wrapper method touches. *)
notLog ==
    <<stopped, instances, listeners, counter, writer, readers, heap, pc, loc,
      data, got, ret, hist, dropped, notif, picks, calls, writes, closeRet,
      closes, newInstancer, kvWatch, kvClient, zapFields>>

(* The program keeps the wrapper a call returned. *)
Keep(w, given) ==
    /\ Len(logWrap.ws) < MaxWrappers
    /\ logWrap' = [logWrap EXCEPT !.ws = Append(@, Wrapped(w, given))]

zap_Wrapper_Named ==
    /\ logWrap.kind = "zap"
    /\ \E i \in 1..Len(logWrap.ws), name \in Names :
          Keep(zap_Named(logWrap.ws[i].w, name),
               Append(logWrap.ws[i].given, name))
    /\ UNCHANGED notLog

zap_Wrapper_ResetNamed ==
    /\ logWrap.kind = "zap"
    /\ \E i \in 1..Len(logWrap.ws), name \in Names :
          Keep(zap_ResetNamed(logWrap.ws[i].w, name), <<name>>)
    /\ UNCHANGED notLog

zerolog_Wrapper_Named ==
    /\ logWrap.kind = "zerolog"
    /\ \E i \in 1..Len(logWrap.ws), name \in Names :
          Keep(zerolog_Named(logWrap.ws[i].w, name),
               Append(logWrap.ws[i].given, name))
    /\ UNCHANGED notLog

zerolog_Wrapper_ResetNamed ==
    /\ logWrap.kind = "zerolog"
    /\ \E i \in 1..Len(logWrap.ws), name \in Names :
          Keep(zerolog_ResetNamed(logWrap.ws[i].w, name), <<name>>)
    /\ UNCHANGED notLog

NextLog ==
    \/ zap_Wrapper_Named
    \/ zap_Wrapper_ResetNamed
    \/ zerolog_Wrapper_Named
    \/ zerolog_Wrapper_ResetNamed

SpecLog == InitLog /\ [][NextLog]_vars

(***************************************************************************)
(* A call of convertArgsToZapFields with any argument list.                *)
(***************************************************************************)
InitFields ==
    /\ NoInstancer
    /\ newInstancer = NewCall(TheConfig, Nil)
    /\ kvWatch = NoWatch
    /\ kvClient = NewKVClient
    /\ logWrap = NoWrappers
    /\ \E args \in ArgLists(MaxArgs) :
          zapFields = [pc |-> "call", args |-> args, fields |-> <<>>]

(* What the conversion does not touch. *)
notFields ==
    <<stopped, instances, listeners, counter, writer, readers, heap, pc, loc,
      data, got, ret, hist, dropped, notif, picks, calls, writes, closeRet,
      closes, newInstancer, kvWatch, kvClient, logWrap>>

convertArgsToZapFields_call ==
    /\ zapFields.pc = "call"
    /\ zapFields' = [zapFields EXCEPT
                       !.pc = "returned",
                       !.fields = convertArgsToZapFields(zapFields.args)]
    /\ UNCHANGED notFields

NextFields == convertArgsToZapFields_call

SpecFields == InitFields /\ [][NextFields]_vars

(***************************************************************************)
(* Properties                                                              *)
(***************************************************************************)
Range(s) == {s[j] : j \in 1..Len(s)}

(* The m selections from the p-th on were all made, on the snapshot of one
   change event, with no Close begun. *)
StableWindow(p, m) ==
    /\ p + m - 1 <= Len(picks)
    /\ \A j \in p..(p + m - 1) :
          picks[j].done /\ picks[j].clean /\ picks[j].k = picks[p].k

(* C1: round-robin fairness.  While the snapshot is stable with N >= 1
   endpoints, N consecutive calls of Instance return every position of the
   snapshot once, in cyclic order from (cursor mod N), and the (N+1)-th
   returns what the first returned. *)
C1_RoundRobin ==
    \A p \in 1..Len(picks) :
        LET s == Snap(picks[p].k)
            N == Len(s)
        IN  N >= 1 =>
              /\ StableWindow(p, N) =>
                   /\ \A j \in 0..(N - 1) :
                         /\ picks[p + j].idx = ((p - 1) + j) % N
                         /\ picks[p + j].ep = s[picks[p + j].idx + 1]
                   /\ {picks[p + j].idx : j \in 0..(N - 1)} = 0..(N - 1)
              /\ StableWindow(p, N + 1) => picks[p + N].ep = picks[p].ep

C1_Witness ==
    /\ StableWindow(1, 3)
    /\ Snap(picks[1].k) = <<"10.0.0.1:8080", "10.0.0.9:9090">>
    /\ <<picks[1].ep, picks[2].ep, picks[3].ep>> =
          <<"10.0.0.1:8080", "10.0.0.9:9090", "10.0.0.1:8080">>

(* C2: with concurrent callers of Instance and snapshot replacements by the
   handler (and no Close begun), no call panics, and a call returns either
   found = false or an element of a snapshot that was current during it. *)
C2_SelectionValid ==
    \A c \in Clients :
        (ret[c].op = "Instance" /\ ret[c].clean) =>
            /\ ret[c].out = "ok"
            /\ ret[c].found =>
                 \E k \in ret[c].k0..ret[c].k1 : ret[c].ep \in Range(Snap(k))

C2_Witness ==
    /\ ret["c1"].op = "Instance" /\ ret["c1"].clean /\ ret["c1"].found
    /\ ret["c1"].k0 < ret["c1"].k1
    /\ ret["c2"].op = "Instance" /\ ret["c2"].clean /\ ret["c2"].found

(* C3: Instance returns found = false whenever the snapshot is empty, and
   in no interleaving with the handler, RegisterListener and Close does it
   index the snapshot at a position at or beyond its length. *)
C3_NeverOutOfRange ==
    \A c \in Clients : ret[c].op = "Instance" => ret[c].out # "panic_index"

(* C4: after Close has returned, every call of Instance, Instances or
   RegisterListener panics with the closed state and returns no data;
   RegisterListener then neither adds the listener nor invokes it. *)
C4_ClosedSignals ==
    [][(/\ closeRet
        /\ (calls'.picks # calls.picks \/ calls'.others # calls.others)
        /\ \A c \in Clients : pc'[c] # "C_instances" \/ pc[c] = "C_instances")
       => \E c \in Clients :
             /\ ret'[c].seq = ret[c].seq + 1
             /\ ret'[c].out = "panic_closed"
             /\ ret'[c].ref = NoRef /\ ret'[c].ep = "" /\ ~ret'[c].found
             /\ pc' = pc
             /\ listeners' = listeners /\ notif' = notif /\ got' = got
             /\ writer' = writer /\ readers' = readers]_vars

C4_Witness ==
    /\ closeRet
    /\ ret["c1"].seq = 2
    /\ ret["c1"].op = "RegisterListener"
    /\ ret["c1"].out = "panic_closed"
    /\ calls.others = 2

(* The notifications of kind `kind` the listener l got for epoch k. *)
Notified(l, kind, k) ==
    {j \in 1..Len(notif) :
        notif[j].l = l /\ notif[j].kind = kind /\ notif[j].k = k}

(* The registrations of l made before the k-th change event. *)
RegisteredBefore(l, k) ==
    {j \in 1..Len(notif) :
        notif[j].l = l /\ notif[j].kind = "registered" /\ notif[j].k < k}

(* The k-th change event has been handled to the end. *)
Handled(k) == k < Epoch \/ (k = Epoch /\ pc[Feed] \in {"run", "exited"})

(* C5: exactly-once notification.  While the Instancer runs, every entry
   registered before a change event is invoked once with that event's
   snapshot; what a listener observes is the snapshot at its registration
   and then every later snapshot, in order. *)
C5_ExactlyOnce ==
    ~stopped =>
      /\ \A j \in 1..Len(notif) : notif[j].val = Snap(notif[j].k)
      /\ \A i, j \in 1..Len(notif) : i <= j => notif[i].k <= notif[j].k
      /\ \A l \in Listeners : \A k \in 1..Epoch :
            Handled(k) =>
               Cardinality(Notified(l, "changed", k)) =
                  Cardinality(RegisteredBefore(l, k))

(* C6: RegisterListener on a running Instancer invokes the listener once
   before it returns, with the snapshot current then: the empty list before
   any change event, the K-th event's list after K events. *)
C6_RegisterNotifies ==
    /\ \A j \in 1..Len(notif) :
          (notif[j].kind = "registered" /\ notif[j].clean) =>
              notif[j].val = Snap(notif[j].k)
    /\ ~stopped =>
          LET reg == SelectSeq(notif, LAMBDA x : x.kind = "registered")
              open == {c \in Clients : pc[c] \in {"R_make", "R_copy"}}
          IN  /\ Len(listeners) = Len(reg) + Cardinality(open)
              /\ \A j \in 1..Len(reg) : reg[j].l = listeners[j]

C6_Witness ==
    /\ Len(notif) >= 2
    /\ notif[1].kind = "registered" /\ notif[1].k = 0 /\ notif[1].val = <<>>
    /\ \E j \in 2..Len(notif) :
          /\ notif[j].kind = "registered" /\ notif[j].clean
          /\ notif[j].k = 2
          /\ Len(notif[j].val) = 2
          /\ Snap(1) # Snap(2)
    /\ \A c \in Clients : pc[c] = "idle"

(* C7: a change event whose payload is not a batch of service entries is
   dropped: snapshot, listeners and cursor stay as they are, no listener is
   invoked, the handler returns, and Instances gives the same list. *)
C7_MalformedDropped ==
    [][(pc[Feed] = "handler" /\ data.kind = "other" /\ pc'[Feed] # "handler")
       => /\ pc'[Feed] = "run"
          /\ instances' = instances
          /\ heap'[instances'] = heap[instances]
          /\ listeners' = listeners
          /\ counter' = counter
          /\ notif' = notif /\ got' = got /\ hist' = hist
          /\ writer' = writer]_vars

C7_Witness ==
    /\ pc[Feed] = "run"
    /\ \E j \in 1..Len(dropped) : dropped[j] = 1
    /\ Epoch = 1
    /\ Len(heap[instances]) = 2
    /\ Len(listeners) > 0
    /\ Len(notif) = 2

(* The text of the ports the model uses. *)
PortText(p) == CASE p = 8080 -> "8080" [] p = 9090 -> "9090"

(* C8: endpoint mapping.  The endpoint of a descriptor is
   serviceAddress:servicePort when the service address is not empty, and
   nodeAddress:servicePort otherwise. *)
C8_EndpointMapping ==
    /\ (pc[Feed] = "H_len" /\ ~stopped) => heap[instances] = hist[Epoch].snap
    /\ \A k \in 1..Len(hist) :
        /\ Len(hist[k].snap) = Len(hist[k].batch)
        /\ \A j \in 1..Len(hist[k].batch) :
              LET e == hist[k].batch[j] IN
              hist[k].snap[j] =
                 IF e.service # ""
                 THEN e.service \o ":" \o PortText(e.port)
                 ELSE e.node \o ":" \o PortText(e.port)

C8_Witness ==
    /\ Epoch >= 1
    /\ hist[Epoch].batch = <<D1, D2>>
    /\ ~stopped
    /\ heap[instances] = <<"10.0.0.1:8080", "10.0.0.9:9090">>

(* C9: atomic snapshot visibility.  Under any interleaving with the handler
   (and no Close begun), a list returned by Instances or handed to a
   listener is one complete snapshot: the initial empty list or the whole
   result of one change event. *)
C9_AtomicSnapshot ==
    /\ \A c \in Clients :
          (ret[c].op = "Instances" /\ ret[c].out = "ok" /\ ret[c].clean) =>
              \E k \in ret[c].k0..ret[c].k1 : ret[c].val = Snap(k)
    /\ \A j \in 1..Len(notif) :
          notif[j].clean => \E k \in 0..Epoch : notif[j].val = Snap(k)

(* C10: defensive copy.  Writing into a list Instances returned, or into a
   list a listener was handed, never changes the stored snapshot, nor what
   Instance and Instances return. *)
C10_DefensiveCopy ==
    /\ Scribble \notin Range(heap[instances])
    /\ \A c \in Clients :
          ret[c].ep # Scribble /\ Scribble \notin Range(ret[c].val)

C10_Witness ==
    /\ ret["c1"].op = "Instances"
    /\ Len(ret["c1"].val) = 2
    /\ heap[ret["c1"].ref][1] = Scribble
    /\ heap[instances] = ret["c1"].val
    /\ ~stopped

(* C11: when Close runs with no other operation in flight, on its return the
   plan has been asked to stop, the snapshot is empty, the listener set is
   empty and the state is stopped; no listener is invoked afterwards. *)
C11_CloseAlone ==
    \A j \in 1..Len(closes) :
        closes[j].alone =>
            /\ closes[j].stopped /\ stopped
            /\ closes[j].instances = <<>>
            /\ closes[j].listeners = <<>>
            /\ Len(notif) = closes[j].notified

C11_Witness ==
    /\ Len(closes) = 1 /\ closes[1].alone
    /\ Len(notif) = 2
    /\ notif[1].kind = "registered" /\ notif[2].kind = "changed"
    /\ Len(notif[2].val) = 2
    /\ pc[Feed] = "exited"
    /\ heap[instances] = <<>> /\ listeners = <<>>

(* C12: every call of Instance or Instances on a running Instancer
   completes, also when a listener makes it from inside OnChange: no
   goroutine waits for the read lock while it holds the write lock itself. *)
C12_NonBlocking ==
    \A t \in Threads : pc[t] \in {"I_rlock", "S_rlock"} => writer # t

(* The OnChange invocations of the k-th change event, in order. *)
Changed(k) == SelectSeq(notif, LAMBDA x : x.kind = "changed" /\ x.k = k)

(* The registrations made before the k-th change event, in order. *)
Registered(k) == SelectSeq(notif, LAMBDA x : x.kind = "registered" /\ x.k < k)

(* C13: within one change notification the listeners are invoked in
   registration order, one after another by the handler, which holds the
   lock throughout, and all of them before the handler returns and before
   the next change event is handled. *)
C13_RegistrationOrder ==
    ~stopped =>
      /\ \A k \in 1..Epoch :
            LET ch == Changed(k)
                reg == Registered(k)
            IN  /\ Len(ch) <= Len(reg)
                /\ \A j \in 1..Len(ch) : ch[j].l = reg[j].l
                /\ Handled(k) => Len(ch) = Len(reg)
      /\ \A i, j, m \in 1..Len(notif) :
            (/\ i < j /\ j < m
             /\ notif[i].kind = "changed" /\ notif[m].kind = "changed"
             /\ notif[i].k = notif[m].k)
            => (notif[j].kind = "changed" /\ notif[j].k = notif[i].k)
      /\ pc[Feed] = "H_notify" =>
            /\ writer = Feed
            /\ Len(Changed(Epoch)) = loc[Feed].i - 1
            /\ loc[Feed].ls = listeners

C13_Witness ==
    /\ ~stopped
    /\ Epoch = 1 /\ pc[Feed] = "run"
    /\ Len(notif) = 4
    /\ <<notif[1].l, notif[2].l, notif[3].l, notif[4].l>> =
          <<"l1", "l2", "l1", "l2">>
    /\ notif[3].kind = "changed" /\ notif[4].kind = "changed"

(* How often l occurs in the listener set. *)
Entries_of(l) == Cardinality({j \in 1..Len(listeners) : listeners[j] = l})

(* C14: no deduplication.  A listener registered m times has m entries in
   the listener set, was invoked once at each registration, and is invoked
   m times for every later change event the handler has finished. *)
C14_NoDeduplication ==
    ~stopped =>
      \A l \in Listeners :
        LET regs == {j \in 1..Len(notif) :
                        notif[j].l = l /\ notif[j].kind = "registered"}
            open == {c \in Clients :
                        pc[c] \in {"R_make", "R_copy"} /\ loc[c].l = l}
        IN  /\ Entries_of(l) = Cardinality(regs) + Cardinality(open)
            /\ \A k \in 1..Epoch :
                  Handled(k) =>
                     Cardinality(Notified(l, "changed", k)) =
                        Cardinality(RegisteredBefore(l, k))

C14_Witness ==
    /\ ~stopped
    /\ listeners = <<"l1", "l1">>
    /\ Epoch = 1 /\ pc[Feed] = "run"
    /\ Cardinality(Notified("l1", "registered", 0)) = 2
    /\ Cardinality(Notified("l1", "changed", 1)) = 2

(* C15: a failing listener does not keep the later ones from running: when
   a listener's OnChange panics during a change notification, every
   listener registered after it is still invoked for that change event. *)
C15_FailureIsolated ==
    (pc[Feed] = "panicked" /\ loc[Feed].err = Nil /\ ~stopped) =>
        Len(Changed(Epoch)) = Len(loc[Feed].ls)

(* C16: when the plan's run loop ends with an error the goroutine panics
   and nothing of the process runs afterwards; when it ends because Close
   asked for the stop, with no error, there is no panic. *)
C16_RunEndFatal ==
    [][/\ loc'[Feed].err # Nil => pc'[Feed] = "panicked"
       /\ pc[Feed] # "panicked"
       /\ (pc[Feed] = "run" /\ pc'[Feed] \notin {"run", "handler"}
             /\ loc'[Feed].err = Nil)
          => (stopped /\ pc'[Feed] = "exited")]_vars

C16_Witness ==
    /\ pc[Feed] = "panicked" /\ loc[Feed].err # Nil
    /\ ~stopped
    /\ Len(heap[instances]) = 2
    /\ pc["c1"] = "I_index"

(* A service name of white space only, or empty. *)
Blank(name) == \A j \in 1..Len(name) : name[j] \in Space

(* C17: NewInstancer with a nil client, or with an empty or blank service
   name, panics before the parameters of the plan are built or the plan is
   started, and returns no Instancer; a nil logger alone is no error, the
   default logger takes its place. *)
C17_ValidatePanics ==
    LET f == newInstancer
        bad == f.arg.Client = Nil \/ Blank(f.arg.Service)
    IN  /\ bad =>
              /\ f.pc \in {"validate", "panicked"}
              /\ f.params = NoParams /\ f.started = 0
              /\ f.instancer = Nil /\ f.err = NilError
              /\ pc[Feed] = "unstarted" /\ instances = NoRef
        /\ ~bad =>
              /\ f.pc # "panicked"
              /\ f.pc # "validate" =>
                    /\ f.config.Logger = IF f.arg.Logger = Nil
                                         THEN "hclog.Default"
                                         ELSE f.arg.Logger
                    /\ f.config = [f.arg EXCEPT !.Logger = f.config.Logger]

C17_Witness ==
    /\ newInstancer.pc = "panicked"
    /\ newInstancer.arg.Client # Nil
    /\ newInstancer.arg.Service = <<" ", "\t">>
    /\ newInstancer.arg.Logger = "custom"

(* C18: when watch.Parse rejects the parameters NewInstancer returns a
   non-nil error and no Instancer, does not panic and starts no goroutine
   of the plan; when it returns an Instancer the error is nil and one
   goroutine of the plan has been started. *)
C18_ParseError ==
    LET f == newInstancer IN
    /\ f.started <= 1
    /\ f.pc = "returned" => ((f.instancer = Nil) <=> (f.err # NilError))
    /\ (f.parseErr # Nil /\ f.params # NoParams) =>
          /\ f.pc = "returned"
          /\ f.instancer = Nil
          /\ f.err # NilError /\ f.err.wraps = f.parseErr
          /\ f.started = 0 /\ pc[Feed] = "unstarted" /\ instances = NoRef
    /\ f.instancer # Nil =>
          /\ f.pc = "returned" /\ f.err = NilError
          /\ f.started = 1 /\ pc[Feed] = "run"
          /\ heap[instances] = <<>> /\ listeners = <<>> /\ counter = 0
    /\ f.started = 1 => f.instancer # Nil

C18_Witness ==
    /\ newInstancer.pc = "returned"
    /\ newInstancer.parseErr # Nil
    /\ newInstancer.err.wraps = newInstancer.parseErr
    /\ newInstancer.arg.Tag = "v1"
    /\ "tag" \in DOMAIN newInstancer.params

(* c takes a step of a Close. *)
CloseStep(c) ==
    /\ pc'[c] # pc[c]
    /\ pc'[c] = "C_instances" \/ pc[c] \in {"C_instances", "C_listeners"}

(* The Close c is in, or begins, began after a Close had returned. *)
LaterClose(c) == IF pc[c] = "idle" THEN closeRet ELSE loc[c].closes0 >= 1

(* C19: Close may be called again: a second, and any further, Close
   returns without a failure and leaves the snapshot, the listener set and
   the lifecycle state as the first Close left them: no step of it changes
   a stopped state, an empty snapshot or an empty listener set, and run
   with nothing else in flight it returns in the state in which a first
   Close, run so, returned. *)
C19_CloseAgain ==
    [][/\ \A c \in Clients :
             (CloseStep(c) /\ LaterClose(c)) =>
                /\ stopped /\ stopped'
                /\ heap[instances] = <<>> => heap'[instances'] = <<>>
                /\ listeners = <<>> => listeners' = <<>>
                /\ pc'[c] = "idle" =>
                      (ret'[c].op = "Close" /\ ret'[c].out = "ok")
       /\ \A j \in 2..Len(closes') :
             (closes'[j].alone /\ closes'[1].alone) =>
                /\ closes'[j].stopped = closes'[1].stopped
                /\ closes'[j].instances = closes'[1].instances
                /\ closes'[j].listeners = closes'[1].listeners]_vars

C19_Witness ==
    /\ Len(closes) = 2
    /\ closes[1].alone /\ closes[2].alone /\ closes[2].after = 1
    /\ Epoch = 1 /\ Len(hist[1].snap) = 2
    /\ ret["c1"].seq = 2 /\ ret["c1"].op = "Close" /\ ret["c1"].out = "ok"

(* The deliveries the handler of Watch has dealt with. *)
Delivered ==
    IF kvWatch.pc = "handler" THEN Len(kvWatch.deliveries) - 1
    ELSE Len(kvWatch.deliveries)

(* C20: with a WatchNotification configured, the callback is called once
   for every change the handler of Watch is given, with a nil error when
   the payload is a KV pair and UnmarshalBinary took it, and with an error
   otherwise. *)
C20_WatchNotified ==
    kvWatch.opts.WatchNotification # Nil =>
        \A n \in 1..Delivered :
            LET got_n == {j \in 1..Len(kvWatch.notifications) :
                             kvWatch.notifications[j].delivery = n}
                raw == kvWatch.deliveries[n]
                good == /\ raw.type = "*api.KVPair"
                        /\ UnmarshalBinary(raw.value) = Nil
            IN  /\ Cardinality(got_n) = 1
                /\ \A j \in got_n :
                      (kvWatch.notifications[j].err = Nil) <=> good

(* The last change the handler of Watch was given is a KV pair that
   UnmarshalBinary rejects. *)
UnmarshalFails(w) ==
    /\ w.raw.type = "*api.KVPair"
    /\ UnmarshalBinary(w.raw.value) # Nil

(* C21: when UnmarshalBinary returns an error for a change, the handler of
   Watch panics if and only if PanicOnUnmarshalFailure is set; in both cases
   the WatchNotification, when there is one, has been called with that
   error before; with the flag not set the watch goes on with later
   changes. *)
C21_UnmarshalFailure ==
    [][/\ (kvWatch.pc = "handler" /\ kvWatch'.pc # "handler"
             /\ UnmarshalFails(kvWatch)) =>
            /\ (kvWatch'.pc = "panicked")
                  <=> kvWatch.opts.PanicOnUnmarshalFailure
            /\ ~kvWatch.opts.PanicOnUnmarshalFailure => kvWatch'.pc = "run"
            /\ kvWatch'.cfg = kvWatch.cfg
            /\ kvWatch'.notifications =
                  IF kvWatch.opts.WatchNotification # Nil
                  THEN Append(kvWatch.notifications,
                              [key |-> kvWatch.key,
                               err |-> UnmarshalBinary(kvWatch.raw.value),
                               delivery |-> Len(kvWatch.deliveries)])
                  ELSE kvWatch.notifications
       /\ kvWatch'.pc = "panicked" =>
            (UnmarshalFails(kvWatch) /\ kvWatch.pc = "handler")
       /\ kvWatch.pc # "panicked"]_vars

C21_Witness ==
    /\ kvWatch.pc = "run"
    /\ ~kvWatch.opts.PanicOnUnmarshalFailure
    /\ kvWatch.opts.WatchNotification # Nil
    /\ kvWatch.deliveries = <<KVPair("a: {"), KVPair("a: 2")>>
    /\ Len(kvWatch.notifications) = 2
    /\ kvWatch.notifications[1].err = "unmarshal failed"
    /\ kvWatch.notifications[2].err = Nil
    /\ kvWatch.cfg = "a: 2"

(* What the method without Must returns for the arguments of the last call,
   made on the store that call found. *)
Counterpart(call) ==
    CASE call.op = "MustGet" ->
           Get(call.before, call.args.key, call.args.allowStale,
               call.args.commErr)
      [] call.op = "MustPut" ->
           Put(call.before, call.args.key, call.args.value,
               call.args.commErr)
      [] call.op = "MustPutJSON" ->
           PutJSON(call.before, call.args.key, call.args.v,
                   call.args.commErr)
      [] call.op = "MustPutYAML" ->
           PutYAML(call.before, call.args.key, call.args.v,
                   call.args.commErr)

MustOps == {"MustGet", "MustPut", "MustPutJSON", "MustPutYAML"}

(* C22: a Must method of KVClient panics exactly when the method without
   Must returns an error for the same arguments on the same store (MustGet
   also when that method finds no key); otherwise it sends Consul the same
   requests, leaves the same store and returns the same value. *)
C22_MustEquivalence ==
    kvClient.call.op \in MustOps =>
        LET must == kvClient.call.out
            plain == Counterpart(kvClient.call)
        IN  /\ (must.panic # Nil) <=>
                  \/ plain.err # Nil
                  \/ kvClient.call.op = "MustGet" /\ ~plain.ret.some
            /\ must.reqs = plain.reqs
            /\ must.store = plain.store
            /\ kvClient.store = plain.store
            /\ must.panic = Nil => must.ret = plain.ret
            /\ (kvClient.pc = "panicked") <=> (must.panic # Nil)

C22_Witness ==
    /\ kvClient.pc = "panicked"
    /\ kvClient.call.op = "MustGet"
    /\ kvClient.call.args.key = "k2"
    /\ kvClient.call.args.commErr = Nil
    /\ kvClient.call.out.panic = "key k2 doesn't exist"
    /\ kvClient.store["k1"] = "a: 1\n"
    /\ kvClient.store["k2"] = NoValue

(* A step writes the snapshot, the listener set or the lifecycle flag. *)
WritesShared ==
    instances' # instances \/ listeners' # listeners \/ stopped' # stopped

(* The goroutine t takes the step. *)
Moves(t) == pc'[t] # pc[t]

(* C23: one lock guards the snapshot, the listener set and the lifecycle
   flag: a step that writes one of them is taken by a goroutine that holds
   the write lock (it has it before the step, or takes it in the step), and
   no other goroutine holds the write lock or a read lock at that step. *)
C23_SingleLock ==
    [][WritesShared =>
          /\ \E t \in Threads : Moves(t) /\ (writer = t \/ writer' = t)
          /\ writer # NoThread => Moves(writer)
          /\ \A t \in readers : Moves(t)]_vars

(* No call is in flight and the handler is not running. *)
AllFinished ==
    /\ \A c \in Clients : pc[c] = "idle"
    /\ pc[Feed] \in {"run", "exited"}

(* C24: once Close has returned and every operation that overlapped it has
   finished, the snapshot and the listener set are empty, and no listener
   has been invoked since Close returned. *)
C24_ClosedForGood ==
    (closeRet /\ AllFinished) =>
        /\ heap[instances] = <<>>
        /\ listeners = <<>>
        /\ Len(notif) = closes[1].notified

(* No caller is in a call. *)
CallersIdle == \A c \in Clients : pc[c] = "idle"

(* C25 as stated: every call of Instance on a running Instancer raises the
   counter by one, whether the snapshot is empty or not: with no call in
   flight, the counter is the number of calls of Instance that found the
   Instancer running. *)
C25_OncePerRequest == CallersIdle => counter = calls.running

(* C25 as amended: a call of Instance on a running Instancer raises the
   counter by exactly one when it finds the snapshot not empty, and leaves
   the counter alone when it finds it empty: the counter never exceeds the
   number of calls that found a snapshot with entries, and equals it when no
   call is in flight. *)
C25_OncePerSelection ==
    /\ counter <= calls.nonempty
    /\ calls.nonempty <= calls.running
    /\ CallersIdle => counter = calls.nonempty

C25_Witness ==
    /\ CallersIdle
    /\ ~stopped
    /\ calls.running = 3
    /\ calls.nonempty = 2
    /\ counter = 2
    /\ Len(hist) = 1

(* The endpoint of a service entry, as the claims state it. *)
Endpoint(e) ==
    (IF e.service = "" THEN e.node ELSE e.service) \o ":" \o PortText(e.port)

(* C26: whole-list replacement.  The step of the handler that applies a
   batch of n entries leaves a snapshot of n entries, the j-th being the
   endpoint of the j-th entry of the batch (feed order, duplicates kept, the
   empty batch giving the empty snapshot); the snapshot is a new list, the
   previous one is not written, and none of its entries is in the new one
   unless the batch has it. *)
C26_WholeListReplacement ==
    [][(pc[Feed] = "handler" /\ data.kind = "entries"
          /\ pc'[Feed] # "handler") =>
         LET d == data.entries
             new == heap'[instances']
         IN  /\ Len(new) = Len(d)
             /\ \A j \in 1..Len(d) : new[j] = Endpoint(d[j])
             /\ instances' # instances
             /\ instances \in DOMAIN heap' =>
                   heap'[instances] = heap[instances]
             /\ \A x \in Range(heap[instances]) :
                   x \in Range(new) =>
                      \E j \in 1..Len(d) : x = Endpoint(d[j])]_vars

C26_Witness ==
    /\ ~stopped
    /\ Epoch = 2
    /\ hist[1].batch = <<D1, D2>>
    /\ hist[2].batch = <<D2, D2>>
    /\ pc[Feed] = "H_len"
    /\ heap[instances] = <<"10.0.0.9:9090", "10.0.0.9:9090">>
    /\ \E c \in Clients : ret[c].val = <<"10.0.0.1:8080", "10.0.0.9:9090">>

(* The caller c makes the first step of Close in this step. *)
CloseBegins(c) == pc[c] = "idle" /\ pc'[c] = "C_instances"

(* C27: the lifecycle goes from running to stopped and never back: a step
   makes the Instancer stopped only if it is a step of Close, every Close
   makes it stopped, and no step of any operation or change event makes a
   stopped Instancer running. *)
C27_OneWayLifecycle ==
    [][/\ stopped => stopped'
       /\ (~stopped /\ stopped') => \E c \in Clients : CloseBegins(c)
       /\ \A c \in Clients : CloseBegins(c) => stopped']_vars

C27_Witness ==
    /\ stopped
    /\ Len(closes) = 1
    /\ pc[Feed] = "exited"
    /\ Epoch = 1
    /\ \E c \in Clients :
          ret[c].op = "Instances" /\ ret[c].out = "panic_closed"

(* Where a caller is inside Instance or Instances. *)
ReadPcs == {"I_rlock", "I_add", "I_index", "S_rlock", "S_copy"}

(* The caller c takes a step of its call of Instance or Instances. *)
ReadStep(c) ==
    \/ pc[c] \in ReadPcs /\ pc'[c] # pc[c]
    \/ pc[c] = "idle" /\ pc'[c] \in ReadPcs
    \/ /\ pc[c] = "idle" /\ ret'[c] # ret[c]
       /\ ret'[c].op \in {"Instance", "Instances"}

(* The caller c takes the step of Instance that adds to the counter. *)
AddStep(c) == pc[c] = "I_add" /\ pc'[c] # "I_add"

(* C28: Instance and Instances are read-only on the shared state: none of
   their steps changes the snapshot, the listener set or the stopped flag,
   or invokes a listener, and of the two only Instance changes the counter;
   no step of RegisterListener, of the handler or of Close changes the
   counter, so replacing the snapshot does not reset it. *)
C28_ReadOnlyReaders ==
    [][/\ \A c \in Clients :
             ReadStep(c) =>
                /\ instances' = instances
                /\ heap'[instances] = heap[instances]
                /\ listeners' = listeners
                /\ stopped' = stopped
                /\ notif' = notif
       /\ counter' # counter => \E c \in Clients : AddStep(c)]_vars

C28_Witness ==
    /\ CallersIdle
    /\ pc[Feed] = "run"
    /\ counter = 2
    /\ Len(picks) = 2 /\ picks[2].done /\ picks[2].k = 1
    /\ Epoch = 2
    /\ heap[instances] = <<"10.0.0.9:9090", "10.0.0.9:9090">>

(* C29: in one change notification (no Close begun), every listener is
   handed a list equal to the new snapshot, whatever the listeners invoked
   before it did to the list they were handed. *)
C29_IndependentCopies ==
    \A j \in 1..Len(notif) :
        (notif[j].kind = "changed" /\ notif[j].clean) =>
            notif[j].val = hist[notif[j].k].snap

(* The names of s joined by dots. *)
RECURSIVE JoinDots(_)
JoinDots(s) ==
    IF s = <<>> THEN ""
    ELSE IF Len(s) = 1 THEN s[1]
    ELSE JoinDots(SubSeq(s, 1, Len(s) - 1)) \o "." \o s[Len(s)]

(* The name Name() gives for the wrapper x. *)
NameOf(x) ==
    IF logWrap.kind = "zap" THEN zap_Name(x.w) ELSE zerolog_Name(x.w)

(* C30: after any sequence of Named and ResetNamed from Wrap(logger), Name()
   is the names given since the last ResetNamed (that one included) joined
   by dots; a call leaves the wrapper it is made on as it was; and for zap
   the wrapped zap logger carries the same name as Name(). *)
C30_WrapperNaming ==
    [][/\ \A i \in 1..Len(logWrap.ws) : logWrap'.ws[i] = logWrap.ws[i]
       /\ \A i \in 1..Len(logWrap'.ws) :
             LET x == logWrap'.ws[i]
             IN  /\ NameOf(x) = JoinDots(x.given)
                 /\ logWrap.kind = "zap" => x.w.logger = NameOf(x)]_vars

(* The fields of fs the argument a is part of, as key or as value. *)
FieldsWith(fs, a) ==
    {j \in 1..Len(fs) : fs[j].Value = a \/ fs[j].keyAt = a.at}

(* C31: convertArgsToZapFields pairs its arguments from the start of the
   list: args[2j] is the key and args[2j+1] the value of one field (the key
   as given when it is a string); the last argument of a list of odd length
   is the value of a field of its own; every argument is part of exactly one
   field; and when all keys are strings there are ceil(len(args)/2)
   fields.  (Positions from 0, as in the source.) *)
C31_PairsFromStart ==
    zapFields.pc = "returned" =>
        LET args == zapFields.args
            fs == zapFields.fields
            n == Len(args)
            pairs == {j \in 0..(n \div 2) : 2 * j + 1 < n}
        IN  /\ \A j \in pairs :
                  LET k == args[2 * j + 1]
                      v == args[2 * j + 2]
                  IN  /\ \E f \in 1..Len(fs) : fs[f].Value = v
                      /\ k.type = "string" =>
                            \E f \in 1..Len(fs) :
                               /\ fs[f].Value = v
                               /\ fs[f].Key = k.val /\ fs[f].keyAt = k.at
            /\ n % 2 = 1 =>
                  \E f \in 1..Len(fs) :
                     fs[f].Value = args[n] /\ fs[f].keyAt = -1
            /\ \A p \in 1..n : Cardinality(FieldsWith(fs, args[p])) = 1
            /\ (\A j \in pairs : args[2 * j + 1].type = "string") =>
                  Len(fs) = (n + 1) \div 2

====
